---- MODULE Spec2Model ----
(***************************************************************************)
(* Lab parameter normalization: the engine (LabDataNormalizer), the        *)
(* orchestrator (normalize_lab_data, normalize_batch) and the transaction  *)
(* scope (DatabaseConnection) of agentic-medical-health-review.            *)
(*                                                                         *)
(* Representation.                                                         *)
(*  - A Python string on which the code does case arithmetic (parameter    *)
(*    names, units) is a sequence of one-character strings, so that        *)
(*    LOWER()/str.lower() is computed character by character.              *)
(*  - An Optional value is a sequence of length 0 (None) or 1 (a value).   *)
(*  - Measured values and conversion factors are integers; a confidence    *)
(*    score in [0,1] is an integer number of hundredths.                   *)
(*  - A storage statement (cursor.execute) has one of three outcomes:      *)
(*    "ok"; "error" (it raises, the transaction stays usable: a client     *)
(*    side error, or no cursor at all after a failed connect); "aborted"   *)
(*    (it raises and the server marks the transaction aborted: every later *)
(*    statement of the transaction raises too and COMMIT rolls back).      *)
(***************************************************************************)
EXTENDS Integers, Sequences, FiniteSets, TLC

VARIABLES
    mode,            \* entry point in use: "one" (normalize_lab_data) or "batch"
    pc,              \* position of the orchestrator
    input,           \* arguments of the current normalize_lab_data call
    result,          \* the result dict of the current call
    operations_log,  \* LabDataNormalizer.operations_log of the current call
    local,           \* local variables of normalize_lab_data
    tx,              \* DatabaseConnection: connection state and uncommitted writes
    ref,             \* the reference tables: name mappings, conversion rules, ranges
    db,              \* durable storage: committed rows
    exc,             \* exception in flight (Optional)
    nextId,          \* source of fresh uuid4 values
    batch,           \* normalize_batch: parameters, total and batch_result
    parked,          \* concurrent callers: the attempt that is not taking the current step
    hist             \* history: one record per finished call, and the call's start

vars == <<mode, pc, input, result, operations_log, local, tx, ref, db, exc, nextId, batch, parked, hist>>

\* ----------------------------------------------------------------- bounds
MaxBatch == 2

\* ------------------------------------------------------------- optionals
None == <<>>
Some(x) == <<x>>
IsNone(o) == o = <<>>
Val(o) == o[1]

\* --------------------------------------------------------------- strings
LowerChar(c) ==
    CASE c = "A" -> "a"
      [] c = "E" -> "e"
      [] c = "F" -> "f"
      [] c = "G" -> "g"
      [] c = "H" -> "h"
      [] c = "L" -> "l"
      [] c = "M" -> "m"
      [] c = "N" -> "n"
      [] c = "O" -> "o"
      [] c = "R" -> "r"
      [] c = "S" -> "s"
      [] c = "T" -> "t"
      [] c = "Y" -> "y"
      [] c = "Z" -> "z"
      [] OTHER -> c

Lower(s) == [i \in DOMAIN s |-> LowerChar(s[i])]

\* Python truthiness of an Optional[str]: None and "" are falsy.
Truthy(o) == ~IsNone(o) /\ Val(o) # <<>>

\* -------------------------------------------------------- reference data
\* The rows of parameter_name_mappings, unit_conversion_rules and
\* standard_reference_ranges when the program starts.
NameMappings ==
    { [variant_name |-> <<"G", "l">>, canonical_name |-> "glucose_fasting", confidence_score |-> 100],
      [variant_name |-> <<"g", "l">>, canonical_name |-> "glucose_random",  confidence_score |-> 80],
      [variant_name |-> <<"H", "b">>, canonical_name |-> "hemoglobin_a1c",  confidence_score |-> 60] }

UnitConversionRules ==
    { [canonical_parameter_name |-> "glucose_fasting", source_unit |-> <<"m", "g">>,
       target_unit |-> <<"m", "L">>, conversion_factor |-> 3, confidence_score |-> 100],
      [canonical_parameter_name |-> "hemoglobin_a1c", source_unit |-> <<"f">>,
       target_unit |-> <<"%">>, conversion_factor |-> 100, confidence_score |-> 90] }

StandardReferenceRanges ==
    { [canonical_parameter_name |-> "glucose_fasting", standard_unit |-> <<"m", "L">>,
       range_min |-> Some(4), range_max |-> Some(6), confidence_score |-> 100],
      [canonical_parameter_name |-> "hemoglobin_a1c", standard_unit |-> <<"%">>,
       range_min |-> Some(0), range_max |-> Some(6), confidence_score |-> 100] }

ReferenceData ==
    [parameter_name_mappings |-> NameMappings,
     unit_conversion_rules |-> UnitConversionRules,
     standard_reference_ranges |-> StandardReferenceRanges]

\* ----------------------------------------------------------------- inputs
ParamIds == {"p1", "p2"}
ParamNames == { <<"G", "l">>, <<"g", "L">>, <<"H", "b">>, <<"Z", "z">> }
ParamValues == {0, 117}
ParamUnits == { None, Some(<<>>), Some(<<"m", "g">>), Some(<<"M", "G">>), Some(<<"m", "L">>),
                Some(<<"M", "L">>), Some(<<"%">>), Some(<<"x">>) }

RawParameter(p, n, v, u) ==
    [parameter_id |-> p, user_id |-> "u1", parameter_name |-> n, value |-> v, unit |-> u,
     wellformed |-> TRUE]

OneInputs == { RawParameter(p, n, v, u) : p \in ParamIds, n \in ParamNames, v \in ParamValues, u \in ParamUnits }

\* Items of a batch: a success, a re-run of the same parameter, a name failure,
\* a unit failure, and a dict that lacks a required key.
BatchItems ==
    { RawParameter("p1", <<"G", "l">>, 117, Some(<<"m", "g">>)),
      RawParameter("p2", <<"Z", "z">>, 117, Some(<<"m", "g">>)),
      RawParameter("p2", <<"H", "b">>, 0, Some(<<"x">>)),
      [RawParameter("p2", <<"G", "l">>, 117, None) EXCEPT !.wellformed = FALSE] }

NoInput == RawParameter("p1", <<>>, 0, None)

\* ------------------------------------------------------ storage statements
\* The outcomes cursor.execute can have in the current connection state:
\* without a cursor (connect() failed and returned False) it always raises;
\* in an aborted transaction it always raises.
Outcomes ==
    IF ~tx.connected THEN {"error"}
    ELSE IF tx.aborted THEN {"aborted"}
    ELSE {"ok", "error", "aborted"}

\* str(e) of the exception a failed statement raises.
FaultMessage(o) ==
    IF ~tx.connected THEN "AttributeError"
    ELSE IF tx.aborted THEN "InFailedSqlTransaction"
    ELSE IF o = "aborted" THEN "DatabaseError" ELSE "InterfaceError"

\* ------------------------------------------------------------ the engine
_log_operation(parameter_id, operation, status) ==
    [parameter_id |-> parameter_id, operation |-> operation, status |-> status,
     original_value |-> None, original_unit |-> None, original_name |-> None,
     normalized_value |-> None, standard_unit |-> None, canonical_name |-> None,
     conversion_factor |-> None, failure_reason |-> None]

\* SELECT ... WHERE LOWER(variant_name) = LOWER(%s) ORDER BY confidence_score DESC LIMIT 1
NameLookup(original_name) ==
    LET matches == { m \in ref.parameter_name_mappings : Lower(m.variant_name) = Lower(original_name) }
    IN  IF matches = {} THEN None
        ELSE Some(CHOOSE m \in matches : \A n \in matches : n.confidence_score <= m.confidence_score)

\* Returns the tuple (canonical_name, confidence) and the entry it logs.
normalize_parameter_name(original_name, parameter_id, o) ==
    LET row == NameLookup(original_name)
        entry == _log_operation(parameter_id, "name_mapping", "success")
    IN  IF o # "ok" THEN
            [canonical_name |-> None, confidence |-> 0,
             log |-> [entry EXCEPT !.status = "failed", !.original_name = Some(original_name),
                                   !.failure_reason = Some(FaultMessage(o))]]
        ELSE IF ~IsNone(row) THEN
            [canonical_name |-> Some(Val(row).canonical_name), confidence |-> Val(row).confidence_score,
             log |-> [entry EXCEPT !.original_name = Some(original_name),
                                   !.canonical_name = Some(Val(row).canonical_name)]]
        ELSE
            [canonical_name |-> None, confidence |-> 0,
             log |-> [entry EXCEPT !.status = "flagged", !.original_name = Some(original_name),
                                   !.failure_reason = Some("No canonical mapping found")]]

RuleLookupAnyParameter(canonical_name, unit) ==
    LET matches == { r \in ref.unit_conversion_rules : Lower(r.source_unit) = Lower(unit) }
    IN  IF matches = {} THEN None ELSE Some(CHOOSE r \in matches : TRUE)

\* SELECT ... WHERE canonical_parameter_name = %s AND LOWER(source_unit) = LOWER(%s) LIMIT 1
RuleLookup(canonical_name, unit) ==
    LET matches == { r \in ref.unit_conversion_rules :
                        /\ r.canonical_parameter_name = canonical_name
                        /\ Lower(r.source_unit) = Lower(unit) }
    IN  IF matches = {} THEN None ELSE Some(CHOOSE r \in matches : TRUE)

StandardUnitLookupSourceUnit(canonical_name) ==
    LET matches == { r \in ref.unit_conversion_rules : r.canonical_parameter_name = canonical_name }
    IN  IF matches = {} THEN None ELSE Some((CHOOSE r \in matches : TRUE).source_unit)

\* SELECT target_unit ... WHERE canonical_parameter_name = %s LIMIT 1
StandardUnitLookup(canonical_name) ==
    LET matches == { r \in ref.unit_conversion_rules : r.canonical_parameter_name = canonical_name }
    IN  IF matches = {} THEN None ELSE Some((CHOOSE r \in matches : TRUE).target_unit)

\* Returns (normalized_value, standard_unit, conversion_factor, confidence) and the
\* entry it logs. o1 is the outcome of the rule query, o2 of the standard-unit probe.
convert_unit(value, original_unit, canonical_name, parameter_id, o1, o2) ==
    LET entry == [_log_operation(parameter_id, "unit_conversion", "success")
                    EXCEPT !.original_value = Some(value), !.original_unit = original_unit]
        miss == [normalized_value |-> None, standard_unit |-> None, conversion_factor |-> None,
                 confidence |-> 0]
    IN  IF ~Truthy(original_unit) THEN
            [normalized_value |-> Some(value), standard_unit |-> None, conversion_factor |-> None,
             confidence |-> 50, queries |-> 0,
             log |-> [entry EXCEPT !.status = "flagged", !.original_unit = None,
                                   !.failure_reason = Some("No unit provided in source data")]]
        ELSE IF o1 # "ok" THEN
            miss @@ [queries |-> 1,
                     log |-> [entry EXCEPT !.status = "failed", !.failure_reason = Some(FaultMessage(o1))]]
        ELSE LET rule == RuleLookup(canonical_name, Val(original_unit)) IN
            IF ~IsNone(rule) THEN
                [normalized_value |-> Some(value * Val(rule).conversion_factor),
                 standard_unit |-> Some(Val(rule).target_unit),
                 conversion_factor |-> Some(Val(rule).conversion_factor),
                 confidence |-> Val(rule).confidence_score, queries |-> 1,
                 log |-> [entry EXCEPT !.normalized_value = Some(value * Val(rule).conversion_factor),
                                       !.standard_unit = Some(Val(rule).target_unit),
                                       !.conversion_factor = Some(Val(rule).conversion_factor)]]
            ELSE IF o2 # "ok" THEN
                miss @@ [queries |-> 2,
                         log |-> [entry EXCEPT !.status = "failed", !.failure_reason = Some(FaultMessage(o2))]]
            ELSE LET standard_result == StandardUnitLookup(canonical_name) IN
                IF ~IsNone(standard_result) /\ Lower(Val(standard_result)) = Lower(Val(original_unit)) THEN
                    [normalized_value |-> Some(value), standard_unit |-> original_unit,
                     conversion_factor |-> Some(1), confidence |-> 100, queries |-> 2,
                     log |-> [entry EXCEPT !.normalized_value = Some(value),
                                           !.standard_unit = original_unit,
                                           !.conversion_factor = Some(1)]]
                ELSE
                    miss @@ [queries |-> 2,
                             log |-> [entry EXCEPT !.status = "flagged",
                                                   !.failure_reason = Some("No conversion rule to standard unit")]]

RangeLookupAnyUnit(canonical_name, standard_unit) ==
    LET matches == { r \in ref.standard_reference_ranges :
                        /\ r.canonical_parameter_name = canonical_name
                        /\ (IsNone(standard_unit) \/ r.standard_unit = Val(standard_unit)) }
    IN  IF matches = {} THEN None ELSE Some(CHOOSE r \in matches : TRUE)

\* SELECT ... WHERE canonical_parameter_name = %s AND standard_unit = %s LIMIT 1
\* (a NULL standard_unit matches no row; the comparison is case-sensitive)
RangeLookup(canonical_name, standard_unit) ==
    LET matches == { r \in ref.standard_reference_ranges :
                        /\ r.canonical_parameter_name = canonical_name
                        /\ ~IsNone(standard_unit)
                        /\ r.standard_unit = Val(standard_unit) }
    IN  IF matches = {} THEN None ELSE Some(CHOOSE r \in matches : TRUE)

\* float(x) if x else None: a stored bound that is NULL or 0 is returned as None.
BoundOrNone(b) == IF ~IsNone(b) /\ Val(b) # 0 THEN b ELSE None

align_reference_rangeFaultAsMiss(canonical_name, standard_unit, parameter_id, o) ==
    LET row == RangeLookup(canonical_name, standard_unit)
        entry == [_log_operation(parameter_id, "range_alignment", "success")
                    EXCEPT !.canonical_name = Some(canonical_name)]
    IN  IF o # "ok" THEN
            [range_min |-> None, range_max |-> None, confidence |-> 50,
             log |-> [entry EXCEPT !.status = "failed", !.failure_reason = Some(FaultMessage(o))]]
        ELSE IF ~IsNone(row) THEN
            [range_min |-> BoundOrNone(Val(row).range_min), range_max |-> BoundOrNone(Val(row).range_max),
             confidence |-> Val(row).confidence_score,
             log |-> [entry EXCEPT !.standard_unit = standard_unit]]
        ELSE
            [range_min |-> None, range_max |-> None, confidence |-> 50,
             log |-> [entry EXCEPT !.status = "flagged",
                                   !.failure_reason = Some("No reference range found")]]

\* Returns (range_min, range_max, confidence) and the entry it logs.
align_reference_range(canonical_name, standard_unit, parameter_id, o) ==
    LET row == RangeLookup(canonical_name, standard_unit)
        entry == [_log_operation(parameter_id, "range_alignment", "success")
                    EXCEPT !.canonical_name = Some(canonical_name)]
    IN  IF o # "ok" THEN
            [range_min |-> None, range_max |-> None, confidence |-> 0,
             log |-> [entry EXCEPT !.status = "failed", !.failure_reason = Some(FaultMessage(o))]]
        ELSE IF ~IsNone(row) THEN
            [range_min |-> BoundOrNone(Val(row).range_min), range_max |-> BoundOrNone(Val(row).range_max),
             confidence |-> Val(row).confidence_score,
             log |-> [entry EXCEPT !.standard_unit = standard_unit]]
        ELSE
            [range_min |-> None, range_max |-> None, confidence |-> 50,
             log |-> [entry EXCEPT !.status = "flagged",
                                   !.failure_reason = Some("No reference range found")]]

\* save_audit_logs: one INSERT per buffered entry, in order; an INSERT that
\* raises is reported and skipped. f[i] is the outcome of the i-th INSERT.
FlushPatterns(n) ==
    { f \in [1..n -> {"ok", "error", "aborted"}] :
        /\ ~tx.connected => \A i \in 1..n : f[i] = "error"
        /\ tx.connected /\ tx.aborted => \A i \in 1..n : f[i] = "aborted"
        /\ \A i \in 1..n : \A j \in 1..n : (i < j /\ f[i] = "aborted") => f[j] = "aborted" }

RECURSIVE Written(_, _)
Written(log, f) ==
    IF log = <<>> THEN <<>>
    ELSE (IF f[1] = "ok" THEN <<Head(log)>> ELSE <<>>)
         \o Written(Tail(log), [i \in 1..(Len(log) - 1) |-> f[i + 1]])

\* How many of the INSERTs of a flush raised.
Refused(log, f) == Cardinality({ i \in 1..Len(log) : f[i] # "ok" })

save_audit_logsNewestFirst(t, log, f) ==
    [t EXCEPT !.audit = LET w == Written(log, f) IN t.audit \o [i \in 1..Len(w) |-> w[Len(w) + 1 - i]],
              !.aborted = t.aborted \/ (\E i \in 1..Len(log) : f[i] = "aborted")]

save_audit_logs(t, log, f) ==
    [t EXCEPT !.audit = t.audit \o Written(log, f),
              !.aborted = t.aborted \/ (\E i \in 1..Len(log) : f[i] = "aborted")]

\* ------------------------------------------------------ the transaction
NoTx == [connected |-> FALSE, aborted |-> FALSE, normalized |-> <<>>, status |-> None, audit |-> <<>>]

\* A statement that raised with outcome o leaves the transaction aborted or not.
AfterFault(t, o) == [t EXCEPT !.aborted = t.aborted \/ (t.connected /\ o = "aborted")]

\* COMMIT: the uncommitted writes become durable; the server answers the COMMIT
\* of an aborted transaction with a rollback and no error.
Committed(d, t, parameter_id) ==
    IF t.aborted THEN d
    ELSE [normalized_parameters |-> d.normalized_parameters \o t.normalized,
          normalization_status |->
              IF IsNone(t.status) THEN d.normalization_status
              ELSE [d.normalization_status EXCEPT ![parameter_id] = Val(t.status)],
          normalization_audit_logs |-> d.normalization_audit_logs \o t.audit]

\* ------------------------------------------------------- the orchestrator
LowConfidence == 70

NewResult ==
    [success |-> FALSE, normalized_parameter |-> None, operations_logged |-> 0,
     errors |-> <<>>, warnings |-> <<>>, flagged_for_review |-> FALSE]

NoLocal ==
    [canonical_name |-> None, name_confidence |-> 0,
     normalized_value |-> None, standard_unit |-> None, conversion_factor |-> None, unit_confidence |-> 0,
     range_min |-> None, range_max |-> None, range_confidence |-> 0,
     overall_confidence |-> 0, normalized_param_id |-> None]

Error(kind, detail, exception) == [kind |-> kind, detail |-> detail, exception |-> exception]

NoBatch == [parameters |-> <<>>, total |-> 0, successful |-> 0, failed |-> 0, flagged |-> 0, results |-> <<>>]

NoHist == [calls |-> <<>>, start |-> <<>>, flushes |-> 0, refused |-> 0, stages |-> <<>>, escaped |-> None]

EmptyDb ==
    [normalized_parameters |-> <<>>,
     normalization_status |-> [p \in ParamIds |-> "pending"],
     normalization_audit_logs |-> <<>>]

SeqsUpTo(S, n) == UNION { [1..k -> S] : k \in 0..n }

Init ==
    /\ mode \in {"one", "batch"}
    /\ pc = "call"
    /\ input \in (IF mode = "one" THEN OneInputs ELSE {NoInput})
    /\ batch \in (IF mode = "one" THEN {NoBatch}
                  ELSE { [NoBatch EXCEPT !.parameters = ps, !.total = Len(ps)] :
                            ps \in SeqsUpTo(BatchItems, MaxBatch) })
    /\ result = NewResult
    /\ operations_log = <<>>
    /\ local = NoLocal
    /\ tx = NoTx
    /\ ref = ReferenceData
    /\ db = EmptyDb
    /\ exc = None
    /\ nextId = 1
    /\ parked = None
    /\ hist = NoHist

\* Lines 74-81: a call starts with a fresh result; the engine is not built yet.
Begin(item) ==
    /\ input' = item
    /\ result' = NewResult
    /\ operations_log' = <<>>
    /\ local' = NoLocal
    /\ tx' = NoTx
    /\ exc' = None
    /\ hist' = [hist EXCEPT !.start = <<db>>, !.flushes = 0, !.refused = 0, !.stages = <<>>, !.escaped = None]
    /\ pc' = "enter"

\* normalize_lab_data called directly.
Call ==
    /\ mode = "one" /\ pc = "call"
    /\ Begin(input)
    /\ UNCHANGED <<mode, ref, parked, db, nextId, batch>>

\* normalize_batch, lines 221-229: the next item's keys are read and the
\* single-parameter workflow is called on it.
BatchCall ==
    /\ mode = "batch" /\ pc = "call"
    /\ Len(batch.results) < Len(batch.parameters)
    /\ batch.parameters[Len(batch.results) + 1].wellformed
    /\ Begin(batch.parameters[Len(batch.results) + 1])
    /\ UNCHANGED <<mode, ref, parked, db, nextId, batch>>

\* param['parameter_name'] of a dict without that key raises KeyError, which
\* normalize_batch does not catch.
BatchKeyError ==
    /\ mode = "batch" /\ pc = "call"
    /\ Len(batch.results) < Len(batch.parameters)
    /\ ~batch.parameters[Len(batch.results) + 1].wellformed
    /\ exc' = Some("KeyError")
    /\ pc' = "raised"
    /\ UNCHANGED <<mode, ref, parked, input, result, operations_log, local, tx, db, nextId, batch, hist>>

\* Line 241.
BatchReturn ==
    /\ mode = "batch" /\ pc = "call"
    /\ Len(batch.results) = Len(batch.parameters)
    /\ pc' = "done"
    /\ UNCHANGED <<mode, ref, parked, input, result, operations_log, local, tx, db, exc, nextId, batch, hist>>

\* DatabaseConnection.__enter__: connect() swallows a connection error and
\* returns False, leaving conn and cursor None. Line 85 builds the engine.
Enter ==
    /\ pc = "enter"
    /\ \E ok \in BOOLEAN : tx' = [NoTx EXCEPT !.connected = ok]
    /\ operations_log' = <<>>
    /\ pc' = "name"
    /\ UNCHANGED <<mode, ref, parked, input, result, local, db, exc, nextId, batch, hist>>

NameStageLearnsVariant ==
    /\ pc = "name"
    /\ \E o \in Outcomes :
        LET r == normalize_parameter_name(input.parameter_name, input.parameter_id, o) IN
        /\ operations_log' = Append(operations_log, r.log)
        /\ local' = [local EXCEPT !.canonical_name = r.canonical_name, !.name_confidence = r.confidence]
        /\ tx' = AfterFault(tx, o)
        /\ pc' = IF IsNone(r.canonical_name) THEN "name_failed" ELSE "unit"
        /\ ref' = IF IsNone(r.canonical_name) THEN ref
                  ELSE [ref EXCEPT !.parameter_name_mappings = @ \cup
                            { [variant_name |-> input.parameter_name,
                               canonical_name |-> Val(r.canonical_name),
                               confidence_score |-> 100] }]
    /\ hist' = [hist EXCEPT !.stages = Append(@, "name")]
    /\ UNCHANGED <<mode, parked, input, result, db, exc, nextId, batch>>

\* Lines 88-92.
NameStage ==
    /\ pc = "name"
    /\ \E o \in Outcomes :
        LET r == normalize_parameter_name(input.parameter_name, input.parameter_id, o) IN
        /\ operations_log' = Append(operations_log, r.log)
        /\ local' = [local EXCEPT !.canonical_name = r.canonical_name, !.name_confidence = r.confidence]
        /\ tx' = AfterFault(tx, o)
        /\ pc' = IF IsNone(r.canonical_name) THEN "name_failed" ELSE "unit"
    /\ hist' = [hist EXCEPT !.stages = Append(@, "name")]
    /\ UNCHANGED <<mode, ref, parked, input, result, db, exc, nextId, batch>>

NameFailedUnflagged ==
    /\ pc = "name_failed"
    /\ result' = [result EXCEPT
            !.errors = Append(@, Error("Could not map parameter name", Some(input.parameter_name), "")),
            !.operations_logged = Len(operations_log)]
    /\ \E f \in FlushPatterns(Len(operations_log)) :
        /\ tx' = save_audit_logs(tx, operations_log, f)
        /\ hist' = [hist EXCEPT !.flushes = @ + 1, !.refused = @ + Refused(operations_log, f)]
    /\ pc' = "flag_status"
    /\ UNCHANGED <<mode, ref, parked, input, operations_log, local, db, exc, nextId, batch>>

\* Lines 93-96.
NameFailed ==
    /\ pc = "name_failed"
    /\ result' = [result EXCEPT
            !.errors = Append(@, Error("Could not map parameter name", Some(input.parameter_name), "")),
            !.flagged_for_review = TRUE,
            !.operations_logged = Len(operations_log)]
    /\ \E f \in FlushPatterns(Len(operations_log)) :
        /\ tx' = save_audit_logs(tx, operations_log, f)
        /\ hist' = [hist EXCEPT !.flushes = @ + 1, !.refused = @ + Refused(operations_log, f)]
    /\ pc' = "flag_status"
    /\ UNCHANGED <<mode, ref, parked, input, operations_log, local, db, exc, nextId, batch>>

UnitStageAlwaysQueries ==
    /\ pc = "unit"
    /\ \E o1 \in Outcomes : \E o2 \in Outcomes :
        LET r == convert_unit(input.value, input.unit, Val(local.canonical_name), input.parameter_id, o1, o2)
            raised == IF r.queries = 2 THEN o2 ELSE o1
        IN
        /\ operations_log' = Append(operations_log, r.log)
        /\ local' = [local EXCEPT !.normalized_value = r.normalized_value,
                                  !.standard_unit = r.standard_unit,
                                  !.conversion_factor = r.conversion_factor,
                                  !.unit_confidence = r.confidence]
        /\ tx' = AfterFault(tx, raised)
        /\ pc' = IF IsNone(r.normalized_value) THEN "unit_failed" ELSE "range"
    /\ hist' = [hist EXCEPT !.stages = Append(@, "unit")]
    /\ UNCHANGED <<mode, ref, parked, input, result, db, exc, nextId, batch>>

\* Lines 108-112.
UnitStage ==
    /\ pc = "unit"
    /\ \E o1 \in Outcomes : \E o2 \in Outcomes :
        LET r == convert_unit(input.value, input.unit, Val(local.canonical_name), input.parameter_id, o1, o2)
            raised == IF r.queries = 0 THEN "ok" ELSE IF r.queries = 1 THEN o1 ELSE o2
        IN
        /\ operations_log' = Append(operations_log, r.log)
        /\ local' = [local EXCEPT !.normalized_value = r.normalized_value,
                                  !.standard_unit = r.standard_unit,
                                  !.conversion_factor = r.conversion_factor,
                                  !.unit_confidence = r.confidence]
        /\ tx' = AfterFault(tx, raised)
        /\ pc' = IF IsNone(r.normalized_value) THEN "unit_failed" ELSE "range"
    /\ hist' = [hist EXCEPT !.stages = Append(@, "unit")]
    /\ UNCHANGED <<mode, ref, parked, input, result, db, exc, nextId, batch>>

UnitFailedUnflagged ==
    /\ pc = "unit_failed"
    /\ result' = [result EXCEPT
            !.errors = Append(@, Error("Could not convert unit", input.unit, "")),
            !.operations_logged = Len(operations_log)]
    /\ \E f \in FlushPatterns(Len(operations_log)) :
        /\ tx' = save_audit_logs(tx, operations_log, f)
        /\ hist' = [hist EXCEPT !.flushes = @ + 1, !.refused = @ + Refused(operations_log, f)]
    /\ pc' = "flag_status"
    /\ UNCHANGED <<mode, ref, parked, input, operations_log, local, db, exc, nextId, batch>>

\* Lines 113-116.
UnitFailed ==
    /\ pc = "unit_failed"
    /\ result' = [result EXCEPT
            !.errors = Append(@, Error("Could not convert unit", input.unit, "")),
            !.flagged_for_review = TRUE,
            !.operations_logged = Len(operations_log)]
    /\ \E f \in FlushPatterns(Len(operations_log)) :
        /\ tx' = save_audit_logs(tx, operations_log, f)
        /\ hist' = [hist EXCEPT !.flushes = @ + 1, !.refused = @ + Refused(operations_log, f)]
    /\ pc' = "flag_status"
    /\ UNCHANGED <<mode, ref, parked, input, operations_log, local, db, exc, nextId, batch>>

\* Lines 99-103 and 119-123: UPDATE health_parameters SET normalization_status =
\* 'flagged'; then `return result` leaves the with block.
UpdateFlagged ==
    /\ pc = "flag_status"
    /\ \E o \in Outcomes :
        IF o = "ok"
        THEN tx' = [tx EXCEPT !.status = Some("flagged")] /\ exc' = None
        ELSE tx' = AfterFault(tx, o) /\ exc' = Some(FaultMessage(o))
    /\ pc' = "exit"
    /\ UNCHANGED <<mode, ref, parked, input, result, operations_log, local, db, nextId, batch, hist>>

RangeStageSilentOnFault ==
    /\ pc = "range"
    /\ \E o \in Outcomes :
        LET r == align_reference_range(Val(local.canonical_name), local.standard_unit, input.parameter_id, o) IN
        /\ operations_log' = IF o = "ok" THEN Append(operations_log, r.log) ELSE operations_log
        /\ local' = [local EXCEPT !.range_min = r.range_min, !.range_max = r.range_max,
                                  !.range_confidence = r.confidence,
                                  !.overall_confidence = local.name_confidence + local.unit_confidence + r.confidence]
        /\ result' = IF IsNone(r.range_min) /\ IsNone(r.range_max)
                     THEN [result EXCEPT !.warnings = Append(@, "No reference range available")]
                     ELSE result
        /\ tx' = AfterFault(tx, o)
    /\ hist' = [hist EXCEPT !.stages = Append(@, "range")]
    /\ pc' = "insert"
    /\ UNCHANGED <<mode, ref, parked, input, db, exc, nextId, batch>>

\* Lines 128-136. overall_confidence is kept as the sum of the three stage
\* confidences, that is three times the mean, in hundredths.
RangeStage ==
    /\ pc = "range"
    /\ \E o \in Outcomes :
        LET r == align_reference_range(Val(local.canonical_name), local.standard_unit, input.parameter_id, o) IN
        /\ operations_log' = Append(operations_log, r.log)
        /\ local' = [local EXCEPT !.range_min = r.range_min, !.range_max = r.range_max,
                                  !.range_confidence = r.confidence,
                                  !.overall_confidence = local.name_confidence + local.unit_confidence + r.confidence]
        /\ result' = IF IsNone(r.range_min) /\ IsNone(r.range_max)
                     THEN [result EXCEPT !.warnings = Append(@, "No reference range available")]
                     ELSE result
        /\ tx' = AfterFault(tx, o)
    /\ hist' = [hist EXCEPT !.stages = Append(@, "range")]
    /\ pc' = "insert"
    /\ UNCHANGED <<mode, ref, parked, input, db, exc, nextId, batch>>

NormalizedParameterOriginalValue(id) ==
    [normalized_parameter_id |-> id,
     original_parameter_id |-> input.parameter_id,
     user_id |-> input.user_id,
     canonical_name |-> Val(local.canonical_name),
     original_value |-> input.value,
     original_unit |-> input.unit,
     normalized_value |-> input.value,
     standard_unit |-> local.standard_unit,
     conversion_factor |-> local.conversion_factor,
     reference_range_min |-> local.range_min,
     reference_range_max |-> local.range_max,
     normalization_confidence |-> local.overall_confidence]

\* The row of lines 150-155 and the dict of lines 169-182.
NormalizedParameter(id) ==
    [normalized_parameter_id |-> id,
     original_parameter_id |-> input.parameter_id,
     user_id |-> input.user_id,
     canonical_name |-> Val(local.canonical_name),
     original_value |-> input.value,
     original_unit |-> input.unit,
     normalized_value |-> Val(local.normalized_value),
     standard_unit |-> local.standard_unit,
     conversion_factor |-> local.conversion_factor,
     reference_range_min |-> local.range_min,
     reference_range_max |-> local.range_max,
     normalization_confidence |-> local.overall_confidence]

\* Lines 139-155: a fresh id, then INSERT INTO normalized_parameters.
InsertNormalized ==
    /\ pc = "insert"
    /\ local' = [local EXCEPT !.normalized_param_id = Some(nextId)]
    /\ nextId' = nextId + 1
    /\ \E o \in Outcomes :
        IF o = "ok"
        THEN /\ tx' = [tx EXCEPT !.normalized = Append(@, NormalizedParameter(nextId))]
             /\ exc' = None
             /\ pc' = "update"
        ELSE /\ tx' = AfterFault(tx, o)
             /\ exc' = Some(FaultMessage(o))
             /\ pc' = "exit"
    /\ UNCHANGED <<mode, ref, parked, input, result, operations_log, db, batch, hist>>

\* Lines 158-162: UPDATE health_parameters SET normalization_status = 'normalized'.
UpdateNormalized ==
    /\ pc = "update"
    /\ \E o \in Outcomes :
        IF o = "ok"
        THEN /\ tx' = [tx EXCEPT !.status = Some("normalized")]
             /\ exc' = None
             /\ pc' = "flush"
        ELSE /\ tx' = AfterFault(tx, o)
             /\ exc' = Some(FaultMessage(o))
             /\ pc' = "exit"
    /\ UNCHANGED <<mode, ref, parked, input, result, operations_log, local, db, nextId, batch, hist>>

\* Lines 165-188: flush the audit log, then build the success result.
SaveAndBuild ==
    /\ pc = "flush"
    /\ \E f \in FlushPatterns(Len(operations_log)) :
        /\ tx' = save_audit_logs(tx, operations_log, f)
        /\ hist' = [hist EXCEPT !.flushes = @ + 1, !.refused = @ + Refused(operations_log, f)]
    /\ result' = [result EXCEPT
            !.success = TRUE,
            !.normalized_parameter = Some(NormalizedParameter(Val(local.normalized_param_id))),
            !.operations_logged = Len(operations_log),
            !.flagged_for_review = (local.overall_confidence < 3 * LowConfidence),
            !.warnings = IF local.overall_confidence < 3 * LowConfidence
                         THEN Append(@, "Low confidence score") ELSE @]
    /\ pc' = "exit"
    /\ UNCHANGED <<mode, ref, parked, input, operations_log, local, db, exc, nextId, batch>>

\* DatabaseConnection.__exit__: commit when the block ended without an
\* exception, else rollback; commit() and rollback() do nothing without a
\* connection. A commit that raises leaves nothing committed.
Exit ==
    /\ pc = "exit"
    /\ IF ~IsNone(exc) \/ ~tx.connected
       THEN /\ db' = db
            /\ exc' = exc
       ELSE \E ok \in BOOLEAN :
            IF ok
            THEN db' = Committed(db, tx, input.parameter_id) /\ exc' = None
            ELSE db' = db /\ exc' = Some("OperationalError")
    /\ tx' = NoTx
    /\ pc' = IF IsNone(exc') THEN "return" ELSE "except"
    /\ hist' = [hist EXCEPT !.escaped = exc']
    /\ UNCHANGED <<mode, ref, parked, input, result, operations_log, local, nextId, batch>>

CatchReraises ==
    /\ pc = "except"
    /\ pc' = "raised"
    /\ UNCHANGED <<mode, ref, parked, input, result, operations_log, local, tx, db, exc, nextId, batch, hist>>

\* Lines 190-192: except Exception.
Catch ==
    /\ pc = "except"
    /\ result' = [result EXCEPT
            !.errors = Append(@, Error("Unexpected error", None, Val(exc))),
            !.flagged_for_review = TRUE]
    /\ exc' = None
    /\ pc' = "return"
    /\ UNCHANGED <<mode, ref, parked, input, operations_log, local, tx, db, nextId, batch, hist>>

\* What the history keeps of a finished call: its arguments, its result, and
\* durable storage as the call found it and as it left it.
Finished == [input |-> input, result |-> result, start |-> Val(hist.start), end |-> db]

\* Line 194, called directly.
Return ==
    /\ mode = "one" /\ pc = "return"
    /\ hist' = [hist EXCEPT !.calls = Append(@, Finished)]
    /\ pc' = "done"
    /\ UNCHANGED <<mode, ref, parked, input, result, operations_log, local, tx, db, exc, nextId, batch>>

BatchCollectElif ==
    /\ mode = "batch" /\ pc = "return"
    /\ hist' = [hist EXCEPT !.calls = Append(@, Finished)]
    /\ batch' = [batch EXCEPT
            !.results = Append(@, result),
            !.successful = IF result.success THEN @ + 1 ELSE @,
            !.failed = IF result.flagged_for_review THEN @ + 1 ELSE @,
            !.flagged = IF result.flagged_for_review THEN @ + 1 ELSE @]
    /\ pc' = "call"
    /\ UNCHANGED <<mode, ref, parked, input, result, operations_log, local, tx, db, exc, nextId>>

\* Line 194 and normalize_batch lines 231-239.
BatchCollect ==
    /\ mode = "batch" /\ pc = "return"
    /\ hist' = [hist EXCEPT !.calls = Append(@, Finished)]
    /\ batch' = [batch EXCEPT
            !.results = Append(@, result),
            !.successful = IF result.success THEN @ + 1 ELSE @,
            !.failed = IF result.success THEN @ ELSE @ + 1,
            !.flagged = IF result.flagged_for_review THEN @ + 1 ELSE @]
    /\ pc' = "call"
    /\ UNCHANGED <<mode, ref, parked, input, result, operations_log, local, tx, db, exc, nextId>>

Next ==
    \/ Call
    \/ BatchCall
    \/ BatchKeyError
    \/ BatchReturn
    \/ Enter
    \/ NameStage
    \/ NameFailed
    \/ UnitStage
    \/ UnitFailed
    \/ UpdateFlagged
    \/ RangeStage
    \/ InsertNormalized
    \/ UpdateNormalized
    \/ SaveAndBuild
    \/ Exit
    \/ Catch
    \/ Return
    \/ BatchCollect

Spec == Init /\ [][Next]_vars


\* ================================================== the intake validator
\* health_input_validator.py: validate_health_input and UserIDSchema.
UpperChar(c) ==
    CASE c = "a" -> "A"
      [] c = "e" -> "E"
      [] c = "f" -> "F"
      [] c = "g" -> "G"
      [] c = "h" -> "H"
      [] c = "l" -> "L"
      [] c = "m" -> "M"
      [] c = "n" -> "N"
      [] c = "o" -> "O"
      [] c = "r" -> "R"
      [] c = "s" -> "S"
      [] c = "t" -> "T"
      [] c = "y" -> "Y"
      [] c = "z" -> "Z"
      [] OTHER -> c

\* str.capitalize: the first character upper-cased, the others lower-cased.
Capitalize(s) == [i \in DOMAIN s |-> IF i = 1 THEN UpperChar(s[i]) ELSE LowerChar(s[i])]

RECURSIVE LStrip(_)
LStrip(s) == IF s # <<>> /\ Head(s) = " " THEN LStrip(Tail(s)) ELSE s

RECURSIVE RStrip(_)
RStrip(s) == IF s # <<>> /\ s[Len(s)] = " " THEN RStrip(SubSeq(s, 1, Len(s) - 1)) ELSE s

\* str.strip
Strip(s) == RStrip(LStrip(s))

MaxNameLength == 100
MaxAge == 150

\* The literal set of validate_gender.
valid_genders ==
    { <<"M", "a", "l", "e">>, <<"F", "e", "m", "a", "l", "e">>, <<"O", "t", "h", "e", "r">>,
      <<"m", "a", "l", "e">>, <<"f", "e", "m", "a", "l", "e">>, <<"o", "t", "h", "e", "r">> }

\* ---- arguments
Names == { <<"J", "o">>, <<" ", "J", "o">>, <<>>, <<" ">> }
Ages == {-1, 30, 151}
Genders ==
    valid_genders \cup
    { <<"M", "A", "L", "E">>, <<"F", "E", "M", "A", "L", "E">>, <<"O", "T", "H", "E", "R">>,
      <<"m", "A", "l", "e">>, <<"x">> }
Heights == {0, 170}
Weights == {0, 70}
ConsentIds == { None, Some(<<" ">>), Some(<<"c", "1", " ">>) }
UserConsents == { None, Some(<<"Y", "e", "s">>), Some(<<" ", "Y", "E", "S">>), Some(<<"N", "o">>), Some(<<"x">>) }
LanguageIds == { None, Some(0), Some(1) }
TestEvalIds == { None, Some(7) }

ValidatorInputs ==
    [name : Names, age : Ages, gender : Genders, height_cm : Heights, weight_kg : Weights,
     consent_id : ConsentIds, iso_language_id : LanguageIds, language_desc : {None},
     test_eval_id : TestEvalIds, user_consent : UserConsents]

\* ---- UserIDSchema
validate_name(v) ==
    IF v = <<>> \/ Len(Strip(v)) = 0 \/ Len(v) > MaxNameLength THEN None ELSE Some(Strip(v))

validate_gender(v) == IF v \notin valid_genders THEN None ELSE Some(Capitalize(v))

\* The fields of user_id_data that UserIDSchema rejects.
SchemaErrors(a) ==
    (IF IsNone(validate_name(a.name)) THEN {"name"} ELSE {})
    \cup (IF a.age >= 0 /\ a.age <= MaxAge THEN {} ELSE {"age"})
    \cup (IF IsNone(validate_gender(a.gender)) THEN {"gender"} ELSE {})
    \cup (IF a.height_cm > 0 THEN {} ELSE {"height_cm"})
    \cup (IF a.weight_kg > 0 THEN {} ELSE {"weight_kg"})

\* The validated model: name stripped, gender capitalized.
UserIDSchema(a) ==
    [name |-> Val(validate_name(a.name)), age |-> a.age, gender |-> Val(validate_gender(a.gender)),
     height_cm |-> a.height_cm, weight_kg |-> a.weight_kg,
     iso_language_id |-> a.iso_language_id, language_desc |-> a.language_desc]

\* except ValueError: the key is chosen by the first of these words found in
\* the message, which names every rejected field.
ErrorKey(rejected) ==
    IF "name" \in rejected THEN "name"
    ELSE IF "age" \in rejected THEN "age"
    ELSE IF "gender" \in rejected THEN "gender"
    ELSE IF "height_cm" \in rejected THEN "height_cm"
    ELSE "weight_kg"

NewValidation == [is_valid |-> FALSE, validated_data |-> None, errors |-> {}, warnings |-> <<>>]

ValidationError(r, key, message) == [r EXCEPT !.errors = @ \cup {[key |-> key, message |-> message]}]

\* if x: for an Optional[int] / Optional[str]
TruthyInt(o) == ~IsNone(o) /\ Val(o) # 0

validate_health_input(a) ==
    LET rejected == SchemaErrors(a)
        warned == IF IsNone(a.consent_id)
                  THEN [NewValidation EXCEPT !.warnings = Append(@, "consent_id is not provided")]
                  ELSE NewValidation
        user_consent_normalized == Lower(Strip(Val(a.user_consent)))
        validated_user_id == UserIDSchema(a)
    IN  IF rejected # {} THEN
            ValidationError(NewValidation, ErrorKey(rejected), "validation error")
        ELSE IF ~IsNone(a.consent_id) /\ Len(Strip(Val(a.consent_id))) = 0 THEN
            ValidationError(warned, "consent_id", "Consent ID cannot be empty")
        ELSE IF IsNone(a.user_consent) THEN
            ValidationError(warned, "user_consent", "Explicit user consent is required (Yes/No)")
        ELSE IF user_consent_normalized \notin { <<"y", "e", "s">>, <<"n", "o">> } THEN
            ValidationError(warned, "user_consent", "User consent must be 'Yes' or 'No'")
        ELSE IF user_consent_normalized = <<"n", "o">> THEN
            ValidationError(warned, "user_consent", "User has NOT given consent")
        ELSE
            [warned EXCEPT
                !.is_valid = TRUE,
                !.validated_data = Some(
                    [user_id |->
                        [name |-> validated_user_id.name,
                         age |-> validated_user_id.age,
                         gender |-> validated_user_id.gender,
                         height_cm |-> validated_user_id.height_cm,
                         weight_kg |-> validated_user_id.weight_kg,
                         iso_language_id |-> IF TruthyInt(validated_user_id.iso_language_id)
                                             THEN validated_user_id.iso_language_id ELSE None,
                         language_desc |-> IF Truthy(validated_user_id.language_desc)
                                           THEN validated_user_id.language_desc ELSE None],
                     consent_id |-> IF Truthy(a.consent_id) THEN Some(Strip(Val(a.consent_id))) ELSE None,
                     user_consent |-> Capitalize(user_consent_normalized),
                     test_eval_id |-> a.test_eval_id])]

InitValidator ==
    /\ mode = "validate"
    /\ pc = "call"
    /\ input \in ValidatorInputs
    /\ result = NewValidation
    /\ operations_log = <<>>
    /\ local = NoLocal
    /\ tx = NoTx
    /\ ref = ReferenceData
    /\ db = EmptyDb
    /\ exc = None
    /\ nextId = 1
    /\ batch = NoBatch
    /\ parked = None
    /\ hist = NoHist

\* One call of validate_health_input on the arguments chosen at the start.
ValidateHealthInput ==
    /\ mode = "validate" /\ pc = "call"
    /\ result' = validate_health_input(input)
    /\ pc' = "done"
    /\ UNCHANGED <<mode, ref, parked, input, operations_log, local, tx, db, exc, nextId, batch, hist>>

NextValidator == ValidateHealthInput

SpecValidator == InitValidator /\ [][NextValidator]_vars


\* ===================================================== concurrent callers
\* Two callers run normalize_lab_data at the same time, each on its own
\* parameter_id. Every call builds its own DatabaseConnection and its own
\* LabDataNormalizer (normalize_lab_data.py:83-85), so everything but durable
\* storage is private to the attempt. The variables pc .. exc and the attempt
\* fields of hist describe the attempt that takes the current step; the other
\* attempt waits in parked, and Switch hands the processor over between two
\* storage operations.
ConcurrentItems(p) ==
    { RawParameter(p, <<"G", "l">>, 117, Some(<<"m", "g">>)),
      RawParameter(p, <<"H", "b">>, 117, None),
      RawParameter(p, <<"Z", "z">>, 117, Some(<<"m", "g">>)),
      RawParameter(p, <<"H", "b">>, 0, Some(<<"x">>)) }

\* The private state of the attempt that is running.
Running ==
    [pc |-> pc, input |-> input, result |-> result, operations_log |-> operations_log,
     local |-> local, tx |-> tx, exc |-> exc,
     start |-> hist.start, flushes |-> hist.flushes, refused |-> hist.refused,
     stages |-> hist.stages, escaped |-> hist.escaped]

NotStarted(item) ==
    [pc |-> "call", input |-> item, result |-> NewResult, operations_log |-> <<>>,
     local |-> NoLocal, tx |-> NoTx, exc |-> None,
     start |-> None, flushes |-> 0, refused |-> 0, stages |-> <<>>, escaped |-> None]

InitConcurrent ==
    /\ mode = "concurrent"
    /\ pc = "call"
    /\ input \in ConcurrentItems("p1")
    /\ parked \in { Some(NotStarted(item)) : item \in ConcurrentItems("p2") }
    /\ result = NewResult
    /\ operations_log = <<>>
    /\ local = NoLocal
    /\ tx = NoTx
    /\ ref = ReferenceData
    /\ db = EmptyDb
    /\ exc = None
    /\ nextId = 1
    /\ batch = NoBatch
    /\ hist = NoHist

\* A caller enters normalize_lab_data.
ConcurrentCall ==
    /\ mode = "concurrent" /\ pc = "call"
    /\ Begin(input)
    /\ UNCHANGED <<mode, ref, parked, db, nextId, batch>>

\* Line 194 for a concurrent caller.
ConcurrentReturn ==
    /\ mode = "concurrent" /\ pc = "return"
    /\ hist' = [hist EXCEPT !.calls = Append(@, Finished)]
    /\ pc' = "done"
    /\ UNCHANGED <<mode, ref, parked, input, result, operations_log, local, tx, db, exc, nextId, batch>>

SwitchSharedEngine ==
    /\ mode = "concurrent"
    /\ Val(parked).pc # "done"
    /\ parked' = Some(Running)
    /\ pc' = Val(parked).pc
    /\ input' = Val(parked).input
    /\ result' = Val(parked).result
    /\ operations_log' = operations_log
    /\ local' = Val(parked).local
    /\ tx' = Val(parked).tx
    /\ exc' = Val(parked).exc
    /\ hist' = [calls |-> hist.calls, start |-> Val(parked).start, flushes |-> Val(parked).flushes,
                refused |-> Val(parked).refused, stages |-> Val(parked).stages,
                escaped |-> Val(parked).escaped]
    /\ UNCHANGED <<mode, ref, db, nextId, batch>>

\* The scheduler runs the other attempt, which has not returned yet.
Switch ==
    /\ mode = "concurrent"
    /\ Val(parked).pc # "done"
    /\ parked' = Some(Running)
    /\ pc' = Val(parked).pc
    /\ input' = Val(parked).input
    /\ result' = Val(parked).result
    /\ operations_log' = Val(parked).operations_log
    /\ local' = Val(parked).local
    /\ tx' = Val(parked).tx
    /\ exc' = Val(parked).exc
    /\ hist' = [calls |-> hist.calls, start |-> Val(parked).start, flushes |-> Val(parked).flushes,
                refused |-> Val(parked).refused, stages |-> Val(parked).stages,
                escaped |-> Val(parked).escaped]
    /\ UNCHANGED <<mode, ref, db, nextId, batch>>

NextConcurrent ==
    \/ ConcurrentCall
    \/ Enter
    \/ NameStage
    \/ NameFailed
    \/ UnitStage
    \/ UnitFailed
    \/ UpdateFlagged
    \/ RangeStage
    \/ InsertNormalized
    \/ UpdateNormalized
    \/ SaveAndBuild
    \/ Exit
    \/ Catch
    \/ ConcurrentReturn
    \/ Switch

SpecConcurrent == InitConcurrent /\ [][NextConcurrent]_vars

\* normalize_lab_data on item, run alone and with every statement answered:
\* the entries it logs, what it returns and what it commits (lines 88-188).
SerialAttempt(item) ==
    LET n == normalize_parameter_name(item.parameter_name, item.parameter_id, "ok")
        failure(log, message, detail) ==
            [log |-> log, success |-> FALSE, flagged_for_review |-> TRUE,
             errors |-> <<Error(message, detail, "")>>, warnings |-> <<>>,
             status |-> "flagged", row |-> None]
    IN  IF IsNone(n.canonical_name)
        THEN failure(<<n.log>>, "Could not map parameter name", Some(item.parameter_name))
        ELSE
        LET u == convert_unit(item.value, item.unit, Val(n.canonical_name), item.parameter_id, "ok", "ok") IN
        IF IsNone(u.normalized_value)
        THEN failure(<<n.log, u.log>>, "Could not convert unit", item.unit)
        ELSE
        LET r == align_reference_range(Val(n.canonical_name), u.standard_unit, item.parameter_id, "ok")
            overall == n.confidence + u.confidence + r.confidence
        IN  [log |-> <<n.log, u.log, r.log>>, success |-> TRUE,
             flagged_for_review |-> (overall < 3 * LowConfidence),
             errors |-> <<>>,
             warnings |-> (IF IsNone(r.range_min) /\ IsNone(r.range_max)
                           THEN <<"No reference range available">> ELSE <<>>)
                          \o (IF overall < 3 * LowConfidence THEN <<"Low confidence score">> ELSE <<>>),
             status |-> "normalized",
             row |-> Some([normalized_parameter_id |-> 0,
                           original_parameter_id |-> item.parameter_id,
                           user_id |-> item.user_id,
                           canonical_name |-> Val(n.canonical_name),
                           original_value |-> item.value,
                           original_unit |-> item.unit,
                           normalized_value |-> Val(u.normalized_value),
                           standard_unit |-> u.standard_unit,
                           conversion_factor |-> u.conversion_factor,
                           reference_range_min |-> r.range_min,
                           reference_range_max |-> r.range_max,
                           normalization_confidence |-> overall])]


\* ================================================== the engine used directly
\* A caller holds one LabDataNormalizer on one open connection and calls its
\* public methods in any order: the three stages and save_audit_logs, up to
\* MaxEngineCalls calls, then leaves the with block. hist.stages lists the
\* calls made, in order.
MaxEngineCalls == 5

EngineItems ==
    { RawParameter("p1", <<"G", "l">>, 117, Some(<<"m", "g">>)),
      RawParameter("p1", <<"H", "b">>, 117, None),
      RawParameter("p1", <<"Z", "z">>, 117, Some(<<"m", "g">>)) }

InitEngine ==
    /\ mode = "engine"
    /\ pc = "engine"
    /\ input \in EngineItems
    /\ result = NewResult
    /\ operations_log = <<>>
    /\ local = NoLocal
    /\ tx \in { [NoTx EXCEPT !.connected = c] : c \in BOOLEAN }
    /\ ref = ReferenceData
    /\ db = EmptyDb
    /\ exc = None
    /\ nextId = 1
    /\ batch = NoBatch
    /\ parked = None
    /\ hist = NoHist

EngineCalls == Len(hist.stages)

\* normalizer.normalize_parameter_name(parameter_name, parameter_id)
EngineNormalizeName ==
    /\ mode = "engine" /\ pc = "engine" /\ EngineCalls < MaxEngineCalls
    /\ \E o \in Outcomes :
        LET r == normalize_parameter_name(input.parameter_name, input.parameter_id, o) IN
        /\ operations_log' = Append(operations_log, r.log)
        /\ local' = [local EXCEPT !.canonical_name = r.canonical_name, !.name_confidence = r.confidence]
        /\ tx' = AfterFault(tx, o)
    /\ hist' = [hist EXCEPT !.stages = Append(@, "name")]
    /\ UNCHANGED <<mode, ref, parked, pc, input, result, db, exc, nextId, batch>>

\* normalizer.convert_unit(value, unit, canonical_name, parameter_id), with a
\* canonical name an earlier call returned.
EngineConvertUnit ==
    /\ mode = "engine" /\ pc = "engine" /\ EngineCalls < MaxEngineCalls
    /\ ~IsNone(local.canonical_name)
    /\ \E o1 \in Outcomes : \E o2 \in Outcomes :
        LET r == convert_unit(input.value, input.unit, Val(local.canonical_name), input.parameter_id, o1, o2)
            raised == IF r.queries = 0 THEN "ok" ELSE IF r.queries = 1 THEN o1 ELSE o2
        IN
        /\ operations_log' = Append(operations_log, r.log)
        /\ local' = [local EXCEPT !.normalized_value = r.normalized_value,
                                  !.standard_unit = r.standard_unit,
                                  !.conversion_factor = r.conversion_factor,
                                  !.unit_confidence = r.confidence]
        /\ tx' = AfterFault(tx, raised)
    /\ hist' = [hist EXCEPT !.stages = Append(@, "unit")]
    /\ UNCHANGED <<mode, ref, parked, pc, input, result, db, exc, nextId, batch>>

\* normalizer.align_reference_range(canonical_name, standard_unit, parameter_id)
EngineAlignRange ==
    /\ mode = "engine" /\ pc = "engine" /\ EngineCalls < MaxEngineCalls
    /\ ~IsNone(local.canonical_name)
    /\ \E o \in Outcomes :
        LET r == align_reference_range(Val(local.canonical_name), local.standard_unit, input.parameter_id, o) IN
        /\ operations_log' = Append(operations_log, r.log)
        /\ local' = [local EXCEPT !.range_min = r.range_min, !.range_max = r.range_max,
                                  !.range_confidence = r.confidence]
        /\ tx' = AfterFault(tx, o)
    /\ hist' = [hist EXCEPT !.stages = Append(@, "range")]
    /\ UNCHANGED <<mode, ref, parked, pc, input, result, db, exc, nextId, batch>>

EngineSaveAuditLogsClears ==
    /\ mode = "engine" /\ pc = "engine" /\ EngineCalls < MaxEngineCalls
    /\ \E f \in FlushPatterns(Len(operations_log)) :
        /\ tx' = save_audit_logs(tx, operations_log, f)
        /\ hist' = [hist EXCEPT
                !.flushes = @ + 1,
                !.refused = @ + Refused(operations_log, f),
                !.stages = Append(@, "flush")]
    /\ operations_log' = <<>>
    /\ UNCHANGED <<mode, ref, parked, pc, input, result, local, db, exc, nextId, batch>>

\* normalizer.save_audit_logs(): the loop reads self.operations_log and
\* assigns nothing to it.
EngineSaveAuditLogs ==
    /\ mode = "engine" /\ pc = "engine" /\ EngineCalls < MaxEngineCalls
    /\ \E f \in FlushPatterns(Len(operations_log)) :
        /\ tx' = save_audit_logs(tx, operations_log, f)
        /\ hist' = [hist EXCEPT
                !.flushes = @ + 1,
                !.refused = @ + Refused(operations_log, f),
                !.stages = Append(@, "flush")]
    /\ UNCHANGED <<mode, ref, parked, pc, input, result, operations_log, local, db, exc, nextId, batch>>

\* The with block ends without an exception: DatabaseConnection.__exit__
\* commits, and a commit that raises leaves nothing committed.
EngineExit ==
    /\ mode = "engine" /\ pc = "engine"
    /\ IF ~tx.connected
       THEN db' = db /\ exc' = None
       ELSE \E ok \in BOOLEAN :
            IF ok
            THEN db' = Committed(db, tx, input.parameter_id) /\ exc' = None
            ELSE db' = db /\ exc' = Some("OperationalError")
    /\ hist' = [hist EXCEPT !.escaped = exc']
    /\ pc' = "done"
    /\ UNCHANGED <<mode, ref, parked, input, result, operations_log, local, tx, nextId, batch>>

NextEngine ==
    \/ EngineNormalizeName
    \/ EngineConvertUnit
    \/ EngineAlignRange
    \/ EngineSaveAuditLogs
    \/ EngineExit

SpecEngine == InitEngine /\ [][NextEngine]_vars


\* ================================================================ claims
\* The state in which a call of normalize_lab_data hands its result back.
Returning == pc = "return"

HasError(kind) == \E i \in 1..Len(result.errors) : result.errors[i].kind = kind

ResultFields ==
    {"success", "normalized_parameter", "operations_logged", "errors", "warnings", "flagged_for_review"}

InCall ==
    {"enter", "name", "name_failed", "unit", "unit_failed", "flag_status", "range", "insert",
     "update", "flush", "exit", "except", "return"}

\* C1: normalize_lab_data never throws and never gets stuck: whatever the
\* storage faults (connect, lookups, insert, status update, audit writes,
\* commit), no exception leaves the call, every step of a call has a successor
\* until it returns, the result carries the six fields, and a fault that left
\* the with block is reported as an "Unexpected error" entry with
\* flagged_for_review = true.
C1_NeverThrows ==
    /\ DOMAIN result = ResultFields
    /\ pc = "raised" => (mode = "batch" /\ exc = Some("KeyError"))
    /\ pc \in InCall => ENABLED Next
    /\ (Returning /\ ~IsNone(hist.escaped)) =>
          /\ result.flagged_for_review
          /\ \E i \in 1..Len(result.errors) :
                result.errors[i] = Error("Unexpected error", None, Val(hist.escaped))
          /\ IsNone(exc)

\* A fault escaped the stages (here: after all three stages had logged) and the call returns.
C1_Witness ==
    /\ Returning
    /\ ~IsNone(hist.escaped)
    /\ Len(operations_log) = 3


\* C2: an input whose parameter_name has no case-insensitive exact match in
\* NameMapping returns success = false, flagged_for_review = true and an error
\* "Could not map parameter name" that carries the name; only the name stage ran.
NoNameMatch(name) == \A m \in NameMappings : Lower(m.variant_name) # Lower(name)

C2_UnmappedName ==
    (Returning /\ NoNameMatch(input.parameter_name)) =>
        /\ ~result.success
        /\ result.flagged_for_review
        /\ \E i \in 1..Len(result.errors) :
              result.errors[i] = Error("Could not map parameter name", Some(input.parameter_name), "")
        /\ hist.stages = <<"name">>

\* An unmapped name was looked up without any fault and the call returns.
C2_Witness ==
    /\ Returning
    /\ NoNameMatch(input.parameter_name)
    /\ IsNone(hist.escaped)
    /\ operations_log[1].status = "flagged"

\* The unit is present, the name stage produced canonical name c, no rule
\* converts the unit for c and the unit is not c's standard unit.
NoRule(c, u) ==
    \A r \in UnitConversionRules : r.canonical_parameter_name = c => Lower(r.source_unit) # Lower(u)

NotStandardUnit(c, u) ==
    \A r \in UnitConversionRules : r.canonical_parameter_name = c => Lower(r.target_unit) # Lower(u)

UnitUnconvertible ==
    /\ ~IsNone(local.canonical_name)
    /\ ~IsNone(input.unit)
    /\ NoRule(Val(local.canonical_name), Val(input.unit))
    /\ NotStandardUnit(Val(local.canonical_name), Val(input.unit))

UnitFailure ==
    /\ ~result.success
    /\ result.flagged_for_review
    /\ HasError("Could not convert unit")
    /\ hist.stages = <<"name", "unit">>

\* C3 as stated: every input whose name maps and whose unit is present (not
\* None), has no rule and is not the standard unit, fails at the unit stage.
C3_AnyPresentUnit == (Returning /\ UnitUnconvertible) => UnitFailure

\* C3, amended: every input whose name maps and whose unit is present and not
\* the empty string, has no conversion rule for the canonical name and does not
\* case-insensitively equal its standard unit, returns success = false and
\* flagged_for_review = true with an error "Could not convert unit", and the
\* range stage is not run.
C3_NonEmptyUnit == (Returning /\ UnitUnconvertible /\ Val(input.unit) # <<>>) => UnitFailure

\* An unknown unit was looked up, rule query and standard-unit probe both
\* without fault, and the call returns.
C3_Witness ==
    /\ Returning
    /\ UnitUnconvertible
    /\ Val(input.unit) # <<>>
    /\ Len(operations_log) = 2
    /\ operations_log[2].status = "flagged"

\* C4: in every returned result operations_logged is the number of entries the
\* engine appended during the attempt: 1 after a name failure, 2 after a unit
\* failure, 3 after a success, on every return path.
C4_OperationsLogged ==
    Returning =>
        /\ result.operations_logged = Len(operations_log)
        /\ hist.stages = <<"name">> => result.operations_logged = 1
        /\ hist.stages = <<"name", "unit">> => result.operations_logged = 2
        /\ result.success => result.operations_logged = 3

\* C5: once an attempt has returned, every entry it appended to the operations
\* log is in durable audit storage, after the rows that were there before; a
\* fault in the normalized-record insert, in a status update or in the commit
\* loses none of them. (Stated for the attempts in which no audit INSERT itself
\* raised: a row whose own write was refused cannot be stored.)
C5_AuditComplete ==
    (Returning /\ hist.refused = 0) =>
        db.normalization_audit_logs = Val(hist.start).normalization_audit_logs \o operations_log

\* C6: save_audit_logs is invoked exactly once per attempt, on every path.
C6_FlushedOnce == Returning => hist.flushes = 1

\* C7: the write path of one attempt (normalized-record insert, status update,
\* audit-row inserts) is atomic: when an attempt that reached the write path
\* has returned, either none of these writes is durable, or the normalized row,
\* the status 'normalized' and every audit row of the attempt are.
C7_AtomicWrites ==
    (Returning /\ Len(hist.stages) = 3) =>
        LET s == Val(hist.start) IN
        \/ db = s
        \/ /\ Len(db.normalized_parameters) = Len(s.normalized_parameters) + 1
           /\ db.normalization_status[input.parameter_id] = "normalized"
           /\ db.normalization_audit_logs = s.normalization_audit_logs \o operations_log

\* C8: the BatchResult normalize_batch returns has successful + failed = total
\* = len(results); results[i] is the result of the call made on parameters[i];
\* flagged counts the results with flagged_for_review. While the batch runs,
\* successful + failed = len(results).
C8_BatchInvariant ==
    mode = "batch" =>
        /\ batch.successful + batch.failed = Len(batch.results)
        /\ pc = "done" =>
            /\ batch.total = Len(batch.results)
            /\ batch.total = Len(batch.parameters)
            /\ Len(hist.calls) = batch.total
            /\ \A i \in 1..batch.total :
                  /\ batch.results[i] = hist.calls[i].result
                  /\ hist.calls[i].input = batch.parameters[i]
            /\ batch.flagged = Cardinality({ i \in 1..batch.total : batch.results[i].flagged_for_review })

\* A batch of two returned with one success that is flagged and one failure.
C8_Witness ==
    /\ mode = "batch" /\ pc = "done"
    /\ batch.total = 2
    /\ batch.successful = 1 /\ batch.failed = 1 /\ batch.flagged = 2

IsPrefix(a, b) == Len(a) <= Len(b) /\ SubSeq(b, 1, Len(a)) = a

\* C9: batch items are independent: when normalize_batch ends, every
\* well-formed item has been processed and its result is handed back in
\* results, whatever failed for another item (a malformed item included), and
\* no call altered what earlier calls committed: rows are only appended and
\* only the item's own status changes.
C9_ItemsIndependent ==
    (mode = "batch" /\ pc \in {"done", "raised"}) =>
        /\ \A j \in 1..Len(batch.parameters) :
              batch.parameters[j].wellformed => (pc = "done" /\ j <= Len(batch.results))
        /\ \A i \in 1..Len(hist.calls) :
              LET c == hist.calls[i] IN
              /\ IsPrefix(c.start.normalized_parameters, c.end.normalized_parameters)
              /\ IsPrefix(c.start.normalization_audit_logs, c.end.normalization_audit_logs)
              /\ \A p \in ParamIds \ {c.input.parameter_id} :
                    c.end.normalization_status[p] = c.start.normalization_status[p]

\* C10: between calls, the committed normalized rows of each parameter_id are
\* as many as the calls on it that returned success = true, each with its own id.
C10_RowsMatchSuccesses ==
    pc \in {"call", "done"} =>
        /\ \A p \in ParamIds :
              Cardinality({ i \in 1..Len(db.normalized_parameters) :
                              db.normalized_parameters[i].original_parameter_id = p })
              = Cardinality({ i \in 1..Len(hist.calls) :
                              hist.calls[i].input.parameter_id = p /\ hist.calls[i].result.success })
        /\ \A i, j \in 1..Len(db.normalized_parameters) :
              db.normalized_parameters[i].normalized_parameter_id
                = db.normalized_parameters[j].normalized_parameter_id => i = j

\* C11: in every returned result, success = true exactly when errors is empty
\* and normalized_parameter is present; a result with success = true is handed
\* back with errors = [] on every path, a fault after the success fields were
\* set (the commit at the exit of the transaction scope) included.
C11_SuccessIffNoErrors ==
    Returning =>
        (result.success <=> (result.errors = <<>> /\ ~IsNone(result.normalized_parameter)))

HasWarning(w) == \E i \in 1..Len(result.warnings) : result.warnings[i] = w

\* C12: on every attempt that returns success = true, normalization_confidence
\* is the mean of the three confidences the name, unit and range stages
\* returned (kept here as their sum, three times the mean), flagged_for_review
\* is true exactly when the mean is below 0.7, and a "Low confidence" warning
\* is present exactly then.
C12_ConfidenceAndFlag ==
    (Returning /\ result.success) =>
        LET total == Val(result.normalized_parameter).normalization_confidence IN
        /\ total = local.name_confidence + local.unit_confidence + local.range_confidence
        /\ result.flagged_for_review <=> (total < 3 * LowConfidence)
        /\ HasWarning("Low confidence score") <=> (total < 3 * LowConfidence)

\* The conversion rules registered for canonical name c and unit u, matched as
\* the rule query matches them.
RegisteredRules(c, u) ==
    { r \in UnitConversionRules : r.canonical_parameter_name = c /\ Lower(r.source_unit) = Lower(u) }

\* A NormalizedParameter whose source unit has a registered rule carries the
\* value scaled by the rule's factor, the rule's target unit and its factor.
ConvertedByRule(np) ==
    Truthy(np.original_unit) =>
        \A r \in RegisteredRules(np.canonical_name, Val(np.original_unit)) :
            /\ np.normalized_value = np.original_value * r.conversion_factor
            /\ np.standard_unit = Some(r.target_unit)
            /\ np.conversion_factor = Some(r.conversion_factor)

\* The unit stage of the current call has run and its lookup did not raise.
UnitStageAnswered == Len(operations_log) >= 2 /\ operations_log[2].status # "failed"

\* C13: for every canonical parameter and every source unit with a registered
\* conversion rule (source unit matched case-insensitively), what convert_unit
\* returns and every NormalizedParameter built from it (returned, written in
\* the transaction, or committed) has normalized_value = original value times
\* the rule's factor, standard_unit = the rule's target unit and
\* conversion_factor = the rule's factor.
C13_RuleConversion ==
    /\ (UnitStageAnswered /\ Truthy(input.unit)) =>
          \A r \in RegisteredRules(Val(local.canonical_name), Val(input.unit)) :
              /\ local.normalized_value = Some(input.value * r.conversion_factor)
              /\ local.standard_unit = Some(r.target_unit)
              /\ local.conversion_factor = Some(r.conversion_factor)
    /\ ~IsNone(result.normalized_parameter) => ConvertedByRule(Val(result.normalized_parameter))
    /\ \A i \in 1..Len(tx.normalized) : ConvertedByRule(tx.normalized[i])
    /\ \A i \in 1..Len(db.normalized_parameters) : ConvertedByRule(db.normalized_parameters[i])

\* A value given in "MG" was converted by the rule registered for "mg", and
\* the call returns the NormalizedParameter with the scaled value.
C13_Witness ==
    /\ Returning
    /\ result.success
    /\ input.unit = Some(<<"M", "G">>)
    /\ input.value = 117
    /\ Val(result.normalized_parameter).normalized_value = 351

\* The unit is present, no rule converts it for the canonical name the name
\* stage produced, and it equals that parameter's standard unit (the target
\* unit of its rules) up to case.
UnitAlreadyStandard ==
    /\ ~IsNone(local.canonical_name)
    /\ ~IsNone(input.unit)
    /\ NoRule(Val(local.canonical_name), Val(input.unit))
    /\ ~NotStandardUnit(Val(local.canonical_name), Val(input.unit))

\* C14: when the unit is present, no conversion rule matches (canonical name,
\* unit) and the unit equals the canonical parameter's standard unit up to
\* case, convert_unit logs unit_conversion/success and returns the value
\* unchanged, the original unit as standard_unit, conversion_factor 1.0 and
\* confidence 1.0.
C14_AlreadyStandard ==
    (UnitStageAnswered /\ UnitAlreadyStandard) =>
        /\ operations_log[2].operation = "unit_conversion"
        /\ operations_log[2].status = "success"
        /\ operations_log[2].conversion_factor = Some(1)
        /\ local.normalized_value = Some(input.value)
        /\ local.standard_unit = input.unit
        /\ local.conversion_factor = Some(1)
        /\ local.unit_confidence = 100

\* A glucose value given in "ML", the standard unit "mL" in another case, went
\* through the unit stage without a fault and the call returns it unchanged.
C14_Witness ==
    /\ Returning
    /\ result.success
    /\ UnitAlreadyStandard
    /\ input.unit = Some(<<"M", "L">>)
    /\ input.value = 117
    /\ Val(result.normalized_parameter).standard_unit = Some(<<"M", "L">>)

\* C15: when the unit is null/absent, convert_unit performs no lookup (so the
\* unit stage cannot raise or abort the transaction), appends one
\* unit_conversion/flagged entry and returns the value unchanged with
\* standard_unit and conversion_factor absent and confidence 0.5; this is not
\* a failure: the orchestrator goes on to the range stage.
C15_MissingUnitPassThrough ==
    (pc \in InCall /\ IsNone(input.unit) /\ Len(operations_log) >= 2) =>
        /\ operations_log[2].operation = "unit_conversion"
        /\ operations_log[2].status = "flagged"
        /\ local.normalized_value = Some(input.value)
        /\ IsNone(local.standard_unit)
        /\ IsNone(local.conversion_factor)
        /\ local.unit_confidence = 50
        /\ pc # "unit_failed"
        /\ pc = "range" => (Len(operations_log) = 2 /\ ~tx.aborted)
        /\ Returning => (hist.stages = <<"name", "unit", "range">> /\ ~HasError("Could not convert unit"))

\* A value without unit went through all three stages and the call returns
\* success with the value unchanged.
C15_Witness ==
    /\ Returning
    /\ IsNone(input.unit)
    /\ input.value = 117
    /\ result.success
    /\ Val(result.normalized_parameter).normalized_value = 117
    /\ IsNone(Val(result.normalized_parameter).standard_unit)

\* C16: for every input with a missing unit, whatever the name, the value and
\* the outcome of the lookups, the returned result has flagged_for_review =
\* true or success = false.
C16_MissingUnitFlagged ==
    (Returning /\ IsNone(input.unit)) => (result.flagged_for_review \/ ~result.success)

\* A unit-less value whose name maps with confidence 1.0 returns success
\* without any fault: mean (1.0 + 0.5 + 0.5) / 3, flagged.
C16_Witness ==
    /\ Returning
    /\ IsNone(input.unit)
    /\ IsNone(hist.escaped)
    /\ result.success
    /\ result.flagged_for_review
    /\ local.name_confidence = 100
    /\ local.overall_confidence = 200

\* No statement after the stages failed on its own account: either nothing
\* escaped the with block, or a statement was refused only because the
\* transaction had already been aborted.
NoLaterFault == hist.escaped \in {None, Some("InFailedSqlTransaction")}

\* C17: the range stage never blocks success: whenever the name stage returned
\* a canonical name and the unit stage a normalized value, the attempt returns
\* success = true whatever align_reference_range met (hit, miss or lookup
\* fault). (Stated for the attempts in which the insert, the status update and
\* the commit did not fail on their own account.)
C17_RangeNeverBlocks ==
    (Returning /\ hist.stages = <<"name", "unit", "range">> /\ NoLaterFault) => result.success

\* C18: the durable status of the source parameter after an attempt reflects
\* how the attempt ended: 'flagged' after an attempt that ended in FAILED_NAME
\* or FAILED_UNIT (stated for the attempts from which no exception escaped),
\* 'normalized' when the attempt returned success = true, and no attempt that
\* returned success = false turns the status into 'normalized'.
C18_StatusReflectsOutcome ==
    Returning =>
        LET before == Val(hist.start).normalization_status[input.parameter_id]
            after == db.normalization_status[input.parameter_id]
        IN  /\ (IsNone(hist.escaped) /\ hist.stages \in {<<"name">>, <<"name", "unit">>}) => after = "flagged"
            /\ result.success => after = "normalized"
            /\ (~result.success /\ before # "normalized") => after # "normalized"

\* The fields of a NormalizedParameter that the name and unit lookups decide.
NameAndUnitPart(np) ==
    <<np.canonical_name, np.normalized_value, np.standard_unit, np.conversion_factor>>

\* The fields of a NormalizedParameter that the range lookup decides.
RangePart(np) == <<np.reference_range_min, np.reference_range_max>>

\* C19: lookups do not mutate reference data and are repeatable: no step of
\* the engine or the orchestrator changes the rows of the name-mapping,
\* conversion-rule or reference-range tables, and a call made again on the same
\* input, after earlier calls committed their writes, gets the same answers:
\* the same canonical name, normalized value, standard unit and factor, and
\* the same range whenever the range lookup answered alike (equal confidence).
C19_LookupsRepeatable ==
    /\ ref.parameter_name_mappings = NameMappings
    /\ ref.unit_conversion_rules = UnitConversionRules
    /\ ref.standard_reference_ranges = StandardReferenceRanges
    /\ \A i, j \in 1..Len(hist.calls) :
          LET a == hist.calls[i]
              b == hist.calls[j]
          IN  (a.input = b.input /\ a.result.success /\ b.result.success) =>
                LET x == Val(a.result.normalized_parameter)
                    y == Val(b.result.normalized_parameter)
                IN  /\ NameAndUnitPart(x) = NameAndUnitPart(y)
                    /\ x.normalization_confidence = y.normalization_confidence => RangePart(x) = RangePart(y)

\* The same item was normalized twice in a batch; the first call committed its
\* rows, and the second call found the same rule and the same range.
C19_Witness ==
    /\ mode = "batch" /\ pc = "done"
    /\ Len(hist.calls) = 2
    /\ hist.calls[1].input = hist.calls[2].input
    /\ hist.calls[1].result.success /\ hist.calls[2].result.success
    /\ Len(hist.calls[1].end.normalized_parameters) = 1
    /\ Val(hist.calls[1].result.normalized_parameter).normalization_confidence = 300
    /\ Val(hist.calls[2].result.normalized_parameter).reference_range_min = Some(4)
    /\ Val(hist.calls[2].result.normalized_parameter).normalized_value = 351

\* The record was built from a canonical name and a normalized value that the
\* stages returned, and carries a standard unit.
RequiredFieldsPresent(np) ==
    /\ ~IsNone(local.canonical_name) /\ np.canonical_name = Val(local.canonical_name)
    /\ ~IsNone(local.normalized_value) /\ np.normalized_value = Val(local.normalized_value)
    /\ ~IsNone(np.standard_unit)

\* C20: every NormalizedParameter of an attempt that returns success = true,
\* the one in the result and the one written to storage, has a canonical_name,
\* a normalized_value and a standard_unit that are present (not null).
C20_RequiredFields ==
    (Returning /\ result.success) =>
        /\ RequiredFieldsPresent(Val(result.normalized_parameter))
        /\ \A i \in 1..Len(db.normalized_parameters) :
              db.normalized_parameters[i].normalized_parameter_id = Val(local.normalized_param_id)
                  => RequiredFieldsPresent(db.normalized_parameters[i])

CallerGenders ==
    { g \in Genders : Lower(g) \in { <<"m", "a", "l", "e">>, <<"f", "e", "m", "a", "l", "e">>, <<"o", "t", "h", "e", "r">> } }

\* The arguments are valid apart from the gender, and consent is given.
OtherwiseValid(a) ==
    /\ SchemaErrors(a) \subseteq {"gender"}
    /\ ~(~IsNone(a.consent_id) /\ Len(Strip(Val(a.consent_id))) = 0)
    /\ ~IsNone(a.user_consent)
    /\ Lower(Strip(Val(a.user_consent))) = <<"y", "e", "s">>

\* C21: validate_health_input accepts Male, Female and Other in any letter
\* case ('MALE' and 'FEMALE' included): with otherwise valid arguments and
\* consent 'Yes' the result has is_valid = true and the gender normalized to
\* 'Male', 'Female' or 'Other'.
C21_GenderAnyCase ==
    (pc = "done" /\ input.gender \in CallerGenders /\ OtherwiseValid(input)) =>
        /\ result.is_valid
        /\ Val(result.validated_data).user_id.gender
              \in { <<"M", "a", "l", "e">>, <<"F", "e", "m", "a", "l", "e">>, <<"O", "t", "h", "e", "r">> }

StageOperations == <<"name_mapping", "unit_conversion", "range_alignment">>

RECURSIVE IsSubseq(_, _)
\* a is b with some elements left out, the order kept.
IsSubseq(a, b) ==
    IF a = <<>> THEN TRUE
    ELSE IF b = <<>> THEN FALSE
    ELSE IF Head(a) = Head(b) THEN IsSubseq(Tail(a), Tail(b))
    ELSE IsSubseq(a, Tail(b))

\* The audit rows of the current attempt: written in the open transaction, and durable.
AuditRowsWritten == tx.audit

AuditRowsDurable ==
    SubSeq(db.normalization_audit_logs,
           Len(Val(hist.start).normalization_audit_logs) + 1, Len(db.normalization_audit_logs))

\* C22: within one attempt the stages run in the order name, unit, range: the
\* operations log, read in append order, is always a prefix of [name_mapping,
\* unit_conversion, range_alignment]; the unit stage runs only after the name
\* stage returned a canonical name and the range stage only after the unit
\* stage returned a value; and save_audit_logs writes the entries to storage
\* in append order.
C22_StageOrder ==
    /\ IsPrefix([i \in 1..Len(operations_log) |-> operations_log[i].operation], StageOperations)
    /\ IsPrefix(hist.stages, <<"name", "unit", "range">>)
    /\ Len(hist.stages) >= 2 => ~IsNone(local.canonical_name)
    /\ Len(hist.stages) >= 3 => ~IsNone(local.normalized_value)
    /\ IsSubseq(AuditRowsWritten, operations_log)
    /\ ~IsNone(hist.start) =>
          /\ IsPrefix(Val(hist.start).normalization_audit_logs, db.normalization_audit_logs)
          /\ IsSubseq(AuditRowsDurable, operations_log)

\* An attempt ran its three stages and its three entries are durable.
C22_Witness ==
    /\ Returning
    /\ hist.stages = <<"name", "unit", "range">>
    /\ AuditRowsDurable = operations_log
    /\ Len(operations_log) = 3

\* A step in which the engine ran one of its three stages.
StageRan == Len(hist'.stages) = Len(hist.stages) + 1

\* C23: each call of normalize_parameter_name, convert_unit or
\* align_reference_range appends exactly one entry to the operations log, on
\* every branch (hit, miss, already standard, absent unit, lookup fault), and
\* no step of an attempt modifies or removes an entry already appended: the log
\* only grows, by one entry per stage, and by nothing in any other step.
C23_OneEntryPerStage ==
    [][ /\ StageRan =>
              /\ Len(operations_log') = Len(operations_log) + 1
              /\ IsPrefix(operations_log, operations_log')
        /\ (pc \in InCall \ {"enter"} /\ ~StageRan) => operations_log' = operations_log
      ]_vars

\* The three stages ran, the range lookup raised, and the log holds three
\* entries with the first two as they were appended.
C23_Witness ==
    /\ Returning
    /\ hist.stages = <<"name", "unit", "range">>
    /\ Len(operations_log) = 3
    /\ operations_log[1].status = "success"
    /\ operations_log[2].status = "flagged"
    /\ operations_log[3].status = "failed"

FaultMessages == {"AttributeError", "InFailedSqlTransaction", "DatabaseError", "InterfaceError"}

\* The k-th stage of the current attempt logged a lookup fault.
StageFaulted(k) == Len(operations_log) >= k /\ operations_log[k].status = "failed"

\* C24: a fault during the lookup of a stage is contained in the engine and
\* not retried: no exception reaches the orchestrator from a stage, the stage
\* appends one 'failed' entry carrying the fault message and returns its
\* sentinel ((None, 0.0); (None, None, None, 0.0); (None, None, 0.0)), and a
\* name or unit fault ends the attempt in FAILED_NAME or FAILED_UNIT as a miss
\* does: no later stage runs and the result is a flagged failure with the
\* stage's error.
C24_FaultsContained ==
    /\ pc \in {"name_failed", "unit", "unit_failed", "range", "insert"} => IsNone(exc)
    /\ \A k \in 1..Len(operations_log) :
          StageFaulted(k) =>
              /\ ~IsNone(operations_log[k].failure_reason)
              /\ Val(operations_log[k].failure_reason) \in FaultMessages
    /\ StageFaulted(1) =>
          /\ IsNone(local.canonical_name) /\ local.name_confidence = 0
          /\ hist.stages = <<"name">>
          /\ Returning => (~result.success /\ result.flagged_for_review
                           /\ HasError("Could not map parameter name"))
    /\ StageFaulted(2) =>
          /\ IsNone(local.normalized_value) /\ IsNone(local.standard_unit)
          /\ IsNone(local.conversion_factor) /\ local.unit_confidence = 0
          /\ hist.stages = <<"name", "unit">>
          /\ Returning => (~result.success /\ result.flagged_for_review
                           /\ HasError("Could not convert unit"))
    /\ StageFaulted(3) =>
          /\ IsNone(local.range_min) /\ IsNone(local.range_max) /\ local.range_confidence = 0
          /\ hist.stages = <<"name", "unit", "range">>

\* The unit lookup raised, nothing else did, and the attempt returns the unit
\* failure with the status 'flagged' committed, as after a miss.
C24_Witness ==
    /\ Returning
    /\ StageFaulted(2)
    /\ IsNone(hist.escaped)
    /\ result.errors = <<Error("Could not convert unit", input.unit, "")>>
    /\ db.normalization_status[input.parameter_id] = "flagged"

\* C25: a flush is best-effort per entry: save_audit_logs attempts to write
\* every buffered entry, a failure writing one entry does not stop the others,
\* save_audit_logs itself never raises, and every entry whose write did not
\* fail is persisted: when the attempt has returned without any exception
\* leaving the with block, its durable audit rows are as many as its entries
\* minus the writes that failed.
C25_BestEffortFlush ==
    /\ pc = "flag_status" => IsNone(exc)
    /\ (pc = "exit" /\ result.success) => IsNone(exc)
    /\ (Returning /\ IsNone(hist.escaped) /\ hist.flushes = 1) =>
          Len(AuditRowsDurable) = Len(operations_log) - hist.refused

\* The rows of the reference-range table registered for (c, u), u compared as stored.
RegisteredRanges(c, u) ==
    { r \in StandardReferenceRanges : r.canonical_parameter_name = c /\ Some(r.standard_unit) = u }

\* The range stage of the current attempt found a row.
RangeHit == Len(operations_log) >= 3 /\ operations_log[3].status = "success"

\* C26: on a reference-range hit align_reference_range returns the stored
\* range_min and range_max of the matching row and its confidence_score: a
\* bound is returned as absent only when it is absent in the row, whatever its
\* value, 0 included.
C26_StoredBoundsReturned ==
    RangeHit =>
        \E r \in RegisteredRanges(Val(local.canonical_name), local.standard_unit) :
            /\ local.range_min = r.range_min
            /\ local.range_max = r.range_max
            /\ local.range_confidence = r.confidence_score

\* C27: two attempts on distinct parameter_ids may interleave their storage
\* operations freely: no entry of an attempt's operations log and no row it
\* writes carries the other attempt's parameter_id; an attempt whose statements
\* were all answered returns what it returns when run alone; and once it has
\* returned, durable storage holds for its parameter_id exactly the rows and the
\* status it leaves when run alone, the two attempts' rows lying one after the
\* other in the order of their commits.
BothAttempts == {Running, Val(parked)}

\* No statement of attempt a raised or was refused.
Undisturbed(a) ==
    /\ IsNone(a.escaped)
    /\ a.refused = 0
    /\ \A k \in 1..Len(a.operations_log) : a.operations_log[k].status # "failed"

HasReturned(a) == a.pc \in {"return", "done"}

WithoutId(row) == [row EXCEPT !.normalized_parameter_id = 0]

AuditRowsOf(p) == SelectSeq(db.normalization_audit_logs, LAMBDA e : e.parameter_id = p)

NormalizedRowsOf(p) ==
    LET rows == SelectSeq(db.normalized_parameters, LAMBDA r : r.original_parameter_id = p)
    IN  [i \in 1..Len(rows) |-> WithoutId(rows[i])]

OwnIdOnly(a) ==
    /\ \A k \in 1..Len(a.operations_log) : a.operations_log[k].parameter_id = a.input.parameter_id
    /\ \A k \in 1..Len(a.tx.audit) : a.tx.audit[k].parameter_id = a.input.parameter_id
    /\ \A k \in 1..Len(a.tx.normalized) : a.tx.normalized[k].original_parameter_id = a.input.parameter_id

ReturnsAsSerial(a) ==
    LET s == SerialAttempt(a.input) IN
    /\ a.operations_log = s.log
    /\ a.result.success = s.success
    /\ a.result.flagged_for_review = s.flagged_for_review
    /\ a.result.errors = s.errors
    /\ a.result.warnings = s.warnings
    /\ a.result.operations_logged = Len(s.log)
    /\ IF IsNone(s.row) THEN IsNone(a.result.normalized_parameter)
       ELSE /\ ~IsNone(a.result.normalized_parameter)
            /\ WithoutId(Val(a.result.normalized_parameter)) = Val(s.row)

PersistsAsSerial(a) ==
    LET s == SerialAttempt(a.input) IN
    /\ AuditRowsOf(a.input.parameter_id) = s.log
    /\ NormalizedRowsOf(a.input.parameter_id) = s.row
    /\ db.normalization_status[a.input.parameter_id] = s.status

OneAfterAnother(a, b) ==
    /\ db.normalization_audit_logs = SerialAttempt(a.input).log \o SerialAttempt(b.input).log
    /\ [i \in 1..Len(db.normalized_parameters) |-> WithoutId(db.normalized_parameters[i])]
           = SerialAttempt(a.input).row \o SerialAttempt(b.input).row

C27_ConcurrentAsSerial ==
    mode = "concurrent" =>
        /\ \A a \in BothAttempts : OwnIdOnly(a)
        /\ \A a \in BothAttempts :
               (HasReturned(a) /\ Undisturbed(a)) => (ReturnsAsSerial(a) /\ PersistsAsSerial(a))
        /\ (\A a \in BothAttempts : HasReturned(a) /\ Undisturbed(a)) =>
               (OneAfterAnother(Running, Val(parked)) \/ OneAfterAnother(Val(parked), Running))

\* Both attempts returned undisturbed, and the one that returned last had
\* started before the other committed.
C27_Witness ==
    /\ mode = "concurrent"
    /\ \A a \in BothAttempts : a.pc = "done" /\ Undisturbed(a) /\ a.result.success
    /\ Len(hist.calls) = 2
    /\ hist.calls[1].end # EmptyDb
    /\ hist.calls[2].start = EmptyDb

\* C28: every result returned with success = false has flagged_for_review =
\* true and at least one error, whether the name stage failed, the unit stage
\* failed or an unexpected fault was caught; so in every BatchResult the
\* flagged count is at least the failed count.
ErrorKinds(r) == { r.errors[i].kind : i \in 1..Len(r.errors) }

C28_FailureFlagged ==
    /\ (Returning /\ ~result.success) => (result.flagged_for_review /\ result.errors # <<>>)
    /\ \A i \in 1..Len(batch.results) :
           ~batch.results[i].success =>
               (batch.results[i].flagged_for_review /\ batch.results[i].errors # <<>>)
    /\ batch.flagged >= batch.failed

\* A finished batch of two failed items that between them took all three
\* failure paths.
C28_Witness ==
    /\ mode = "batch" /\ pc = "done"
    /\ batch.failed = 2 /\ batch.flagged = 2
    /\ ErrorKinds(batch.results[1]) = {"Could not map parameter name"}
    /\ ErrorKinds(batch.results[2]) = {"Could not convert unit", "Unexpected error"}

\* The rows of the reference-range table registered for canonical name c and
\* that parameter's standard unit.
StandardUnitRanges(c) ==
    { r \in ref.standard_reference_ranges :
        r.canonical_parameter_name = c /\ Some(r.standard_unit) = StandardUnitLookup(c) }

\* The range stage of the current attempt ran and its lookup did not raise.
RangeStageAnswered == Len(operations_log) >= 3 /\ operations_log[3].status # "failed"

\* C29: when the input unit equals the canonical parameter's standard unit up
\* to letter case and a reference range is registered for (canonical name,
\* standard unit), the successful result carries the bounds the range stage
\* returns for that range, whatever the letter case of the input unit.
C29_RangeAnyCase ==
    (Returning /\ result.success /\ UnitAlreadyStandard /\ RangeStageAnswered) =>
        \A r \in StandardUnitRanges(Val(local.canonical_name)) :
            /\ Val(result.normalized_parameter).reference_range_min = BoundOrNone(r.range_min)
            /\ Val(result.normalized_parameter).reference_range_max = BoundOrNone(r.range_max)

\* The operation name a stage call logs under.
OperationOf(call) ==
    IF call = "name" THEN "name_mapping"
    ELSE IF call = "unit" THEN "unit_conversion" ELSE "range_alignment"

\* The calls made on the engine so far, without the flushes.
StageCalls == SelectSeq(hist.stages, LAMBDA c : c # "flush")

\* How many stage calls came before the i-th call.
HeldAt(i) == Len(SelectSeq(SubSeq(hist.stages, 1, i - 1), LAMBDA c : c # "flush"))

\* What the flushes among the first i calls write when no INSERT fails: each
\* one every entry the engine holds at that moment.
RECURSIVE FlushedUpTo(_)
FlushedUpTo(i) ==
    IF i = 0 THEN <<>>
    ELSE FlushedUpTo(i - 1) \o
         (IF hist.stages[i] = "flush" THEN SubSeq(operations_log, 1, HeldAt(i)) ELSE <<>>)

RECURSIVE AttemptedUpTo(_)
AttemptedUpTo(i) ==
    IF i = 0 THEN 0
    ELSE AttemptedUpTo(i - 1) + (IF hist.stages[i] = "flush" THEN HeldAt(i) ELSE 0)

\* Every call so far was a stage call followed only by flushes.
FlushesLast ==
    \A i \in 1..Len(hist.stages) : \A j \in 1..Len(hist.stages) :
        (i < j /\ hist.stages[i] = "flush") => hist.stages[j] = "flush"

\* C30: save_audit_logs leaves the engine's operations log as it was, so the
\* log always holds one entry per stage call ever made on the engine, in call
\* order, flushed or not; every flush attempts one write per entry held at that
\* moment; when no write fails the audit rows written are, flush after flush,
\* all the entries held at that flush, so k flushes of an engine holding n
\* entries write k*n rows, which the commit makes durable.
C30_FlushNotIdempotent ==
    mode = "engine" =>
        /\ Len(operations_log) = Len(StageCalls)
        /\ \A i \in 1..Len(operations_log) : operations_log[i].operation = OperationOf(StageCalls[i])
        /\ Len(tx.audit) + hist.refused = AttemptedUpTo(Len(hist.stages))
        /\ hist.refused = 0 => tx.audit = FlushedUpTo(Len(hist.stages))
        /\ (hist.refused = 0 /\ FlushesLast) => Len(tx.audit) = hist.flushes * Len(operations_log)
        /\ (pc = "done" /\ IsNone(hist.escaped) /\ tx.connected /\ ~tx.aborted) =>
               db.normalization_audit_logs = tx.audit

\* Two stage calls, two flushes and a third stage call: the log holds three
\* entries and four audit rows were written and committed.
C30_Witness ==
    /\ mode = "engine" /\ pc = "done"
    /\ hist.stages = <<"name", "unit", "flush", "flush", "range">>
    /\ hist.refused = 0
    /\ Len(operations_log) = 3
    /\ Len(db.normalization_audit_logs) = 4
    /\ db.normalization_audit_logs = SubSeq(operations_log, 1, 2) \o SubSeq(operations_log, 1, 2)

====
